---------------------------- MODULE Spec2Model ----------------------------
(***************************************************************************)
(* StanleyTG: the ledger of "Bytes" kept by src/database.py and the        *)
(* handlers of src/bot.py that mutate it (reward_message,                  *)
(* handle_new_member, send_bytes, flip_command, rain_command).             *)
(*                                                                         *)
(* Amounts.  Every amount is an integer number of ticks, one tick being    *)
(* 1/10000 of a Byte, so that the third decimal of an input (0.005) and    *)
(* the product amount * 0.01 of flip_command are exact.  round_bytes       *)
(* quantizes to a multiple of Quantum (0.01 Byte), half-up.  The REAL      *)
(* column and the float arithmetic of the source agree with this exact     *)
(* arithmetic on every value the model uses (all products and sums are     *)
(* re-rounded by round_bytes before they are compared or stored, and the   *)
(* binary error is far below half a Quantum).                              *)
(*                                                                         *)
(* Steps.  Every Database method opens its own connection and commits its  *)
(* own statement (database.py:11-12, 81, 99, 131, 142); no transaction     *)
(* spans two statements.  One action of the model is therefore one         *)
(* statement that touches the store, together with the local computation   *)
(* of the handler up to its next statement.  A read whose value is only    *)
(* printed or formatted into a reply (the get_balance at the end of        *)
(* add_bytes, the balances shown in replies) is folded into the step that  *)
(* precedes it.                                                            *)
(*                                                                         *)
(* Specifications.  Spec lets the statements of NumTasks handler           *)
(* invocations interleave freely on the shared store.  SpecSeq runs the    *)
(* same actions one handler at a time (main() builds the Application       *)
(* without enabling concurrent updates, bot.py:411); there `before` is the  *)
(* store as it was when the handler that is running, or that has just      *)
(* finished, started.  Both hand every update to the handler written for   *)
(* it.  SpecApp is SpecSeq with the updates routed as main() registers the *)
(* handlers (bot.py:414-426).  SpecGroupJoins is SpecSeq with members      *)
(* joining in group chats only.  SpecReward is Spec with message updates   *)
(* only.  SpecDb calls the methods of Database directly, one call at a     *)
(* time, with arguments no handler would pass.                             *)
(***************************************************************************)
EXTENDS Integers, Sequences, FiniteSets, TLC

\* ------------------------------------------------------------------ bounds
NumUsers == 3      \* user ids 1..NumUsers
NumChats == 3      \* chat ids 1..NumChats
NumTasks == 2      \* handler invocations that may be in progress at once
MaxMsgId == 4      \* message ids 1..MaxMsgId
MaxEvents == 2      \* updates handled in one run of the bot

\* --------------------------------------------------------------- constants
Quantum == 100                \* Decimal('0.01') in ticks
Byte == 100 * Quantum      \* 1.00 Byte in ticks

REWARD_PLAIN == 1 * Byte       \* reward = 1.0
REWARD_REPLY == 2 * Byte       \* reward = 2.0
REWARD_MEDIA == 3 * Byte       \* reward = 3.0
REWARD_INVITE == 25 * Byte      \* reward = 25.0
FLIP_MIN_one == 1 * Byte       \* mutant: the minimum typed as 1
FLIP_MIN == 10 * Byte      \* amount < 10
FLIP_MAX == 1000 * Byte    \* amount > 1000
RAKE_DIVISOR == 100            \* amount * 0.01

Users == 1..NumUsers
Chats == 1..NumChats
Tasks == 1..NumTasks
MsgIds == 1..MaxMsgId
ServiceMsgIds == {MaxMsgId + 1}   \* the id of a new_chat_members service message
NoUser == 0                     \* None / unresolved user
BotUser == NumUsers + 1         \* a joining account with is_bot set

\* mutant: the type spelt as no chat spells it, so that no test for 'private'
\* matches
chat_type_mistyped(c) == IF c % 2 = 1 THEN "group" ELSE "Private"

\* chat.type of a chat id: odd ids are groups, even ids are private chats
chat_type(c) == IF c % 2 = 1 THEN "group" ELSE "private"

\* The content of the message with a given id (fixed, so that a redelivered
\* message is the same message).
from_user(m)  == ((m - 1) % NumUsers) + 1
has_media(m)  == m % 2 = 1
is_reply(m)   == (m % 4) \in {2, 3}

\* Raw command arguments, in ticks
SendAmounts == { -(Quantum \div 2), (Quantum \div 2) - 10, Byte - (Quantum \div 2) }
FlipAmounts == { FLIP_MIN - (Quantum \div 2) - 10, FLIP_MIN - (Quantum \div 2),
                 FLIP_MIN + (Byte \div 2), 100 * Byte,
                 FLIP_MAX + (Quantum \div 2) - 10, FLIP_MAX + (Quantum \div 2) }
RainAmounts == { (Quantum \div 2) - 10, Byte - (Quantum \div 2) }
RainCounts == 0..NumUsers
\* new-member service messages: who sent them and who joined
JoinAuthors == {1, 2}
JoinLists == { <<2>>, <<BotUser>>, <<3, BotUser, 2>> }
\* Arguments of direct calls of the Database methods: keys, and amounts in ticks
CallUsers == {1, 2}
CallChats == {1, 2}
StoreAmounts == { -Byte, -(Quantum \div 2), Quantum \div 2, Byte }
TransferAmounts == { -Byte, (Quantum \div 2) - 10, Byte }

VARIABLES
    balances,          \* table balances: (user_id, chat_id) -> balance
    message_rewards,   \* table message_rewards: set of (message_id, chat_id)
    new_members,       \* table new_members: rows (user_id, chat_id, inviter_id)
    task,              \* the handler invocations: position and locals
    reward_credits,    \* history: add_bytes calls made by reward_message, per message
    before,            \* history (SpecSeq): the tables when the running handler started
    updates            \* history: the number of updates handed to a handler so far

vars == <<balances, message_rewards, new_members, task, reward_credits, before,
          updates>>
tables == <<balances, message_rewards, new_members>>

\* ---------------------------------------------------------------- database
\* mutant: ROUND_HALF_DOWN, a tie goes towards zero
round_bytes_half_down(amount) ==
    IF amount >= 0
    THEN ((amount + (Quantum \div 2) - 1) \div Quantum) * Quantum
    ELSE -((((-amount) + (Quantum \div 2) - 1) \div Quantum) * Quantum)

\* Database.round_bytes / bot.round_bytes: quantize to 0.01, ROUND_HALF_UP
\* (ties away from zero).
round_bytes(amount) ==
    IF amount >= 0
    THEN ((amount + (Quantum \div 2)) \div Quantum) * Quantum
    ELSE -((((-amount) + (Quantum \div 2)) \div Quantum) * Quantum)

\* mutant: the SELECT without "AND chat_id = ?" returns a row of the user in
\* whatever chat
get_balance_any_chat(b, user_id, chat_id) ==
    IF \E k \in DOMAIN b : k[1] = user_id
    THEN round_bytes(b[CHOOSE k \in DOMAIN b : k[1] = user_id])
    ELSE 0

get_balance(b, user_id, chat_id) ==
    IF <<user_id, chat_id>> \in DOMAIN b
    THEN round_bytes(b[<<user_id, chat_id>>])
    ELSE 0

\* mutant: ON CONFLICT DO UPDATE SET balance = ? overwrites the balance
add_bytes_overwrite(b, user_id, chat_id, amount) ==
    LET a == round_bytes(amount)
        k == <<user_id, chat_id>>
    IN  IF k \in DOMAIN b THEN [b EXCEPT ![k] = a] ELSE b @@ (k :> a)

\* INSERT ... ON CONFLICT DO UPDATE SET balance = balance + ?
add_bytes(b, user_id, chat_id, amount) ==
    LET a == round_bytes(amount)
        k == <<user_id, chat_id>>
    IN  IF k \in DOMAIN b THEN [b EXCEPT ![k] = @ + a] ELSE b @@ (k :> a)

\* subtract_bytes, first half: round, read, compare
subtract_check(b, user_id, chat_id, amount) ==
    ~(get_balance(b, user_id, chat_id) < round_bytes(amount))

\* mutant: the UPDATE without "AND chat_id = ?" debits the user in every chat
subtract_update_all_chats(b, user_id, chat_id, amount) ==
    LET a == round_bytes(amount)
    IN  [k \in DOMAIN b |-> IF k[1] = user_id THEN b[k] - a ELSE b[k]]

\* subtract_bytes, second half: UPDATE balances SET balance = balance - ?
subtract_update(b, user_id, chat_id, amount) ==
    LET a == round_bytes(amount)
        k == <<user_id, chat_id>>
    IN  IF k \in DOMAIN b THEN [b EXCEPT ![k] = @ - a] ELSE b

has_rewarded_message(mr, message_id, chat_id) == <<message_id, chat_id>> \in mr

\* INSERT OR IGNORE INTO message_rewards
mark_message_rewarded(mr, message_id, chat_id) == mr \cup {<<message_id, chat_id>>}

\* mutant: INSERT OR IGNORE keeps the row that is there
record_new_member_ignore(nm, user_id, chat_id, inviter_id) ==
    IF \E r \in nm : r[1] = user_id /\ r[2] = chat_id
    THEN nm
    ELSE nm \cup {<<user_id, chat_id, inviter_id>>}

\* INSERT OR REPLACE INTO new_members: the row that conflicts on the primary
\* key (user_id, chat_id) is deleted, the new row is inserted (joined_at, the
\* time of the insert, is not modelled)
record_new_member(nm, user_id, chat_id, inviter_id) ==
    { r \in nm : ~(r[1] = user_id /\ r[2] = chat_id) }
        \cup {<<user_id, chat_id, inviter_id>>}

\* SELECT inviter_id ...; result[0] if result and result[0] else None
get_inviter(nm, user_id, chat_id) ==
    IF \E r \in nm : r[1] = user_id /\ r[2] = chat_id
    THEN (CHOOSE r \in nm : r[1] = user_id /\ r[2] = chat_id)[3]
    ELSE NoUser

\* mutant: the query of the else branch, without "AND user_id != ?"
eligible_users_with_sender(b, chat_id, exclude_user_id) ==
    { u \in Users : /\ <<u, chat_id>> \in DOMAIN b
                    /\ b[<<u, chat_id>>] > 0 }

\* mutant: "balance >= 0" also selects the rows that hold nothing
eligible_users_any_row(b, chat_id, exclude_user_id) ==
    { u \in Users : /\ <<u, chat_id>> \in DOMAIN b
                    /\ u # exclude_user_id
                    /\ b[<<u, chat_id>>] >= 0 }

\* The rows get_random_users selects from: chat_id = ? AND user_id != ? AND balance > 0
eligible_users(b, chat_id, exclude_user_id) ==
    { u \in Users : /\ <<u, chat_id>> \in DOMAIN b
                    /\ u # exclude_user_id
                    /\ b[<<u, chat_id>>] > 0 }

\* The possible results of get_random_users: SELECT DISTINCT ... ORDER BY
\* RANDOM() LIMIT count, a list of min(count, rows) different rows in any order
get_random_users(b, chat_id, count, exclude_user_id) ==
    LET e == eligible_users(b, chat_id, exclude_user_id)
        n == IF count < Cardinality(e) THEN count ELSE Cardinality(e)
    IN  { r \in [1..n -> e] : \A i, j \in 1..n : i # j => r[i] # r[j] }

\* ------------------------------------------------------------------ helpers
RECURSIVE SumOver(_, _)
SumOver(b, keys) ==
    IF keys = {} THEN 0
    ELSE LET k == CHOOSE x \in keys : TRUE
         IN  b[k] + SumOver(b, keys \ {k})


Idle == [pc |-> "idle", op |-> "none", user_id |-> NoUser, chat_id |-> 0,
         message_id |-> 0, reward |-> 0, recipient_id |-> NoUser, amount |-> 0,
         count |-> 0, total_amount |-> 0, total_return |-> 0, recipients |-> <<>>,
         rain_results |-> <<>>,
         new_chat_members |-> <<>>, inviter_id |-> NoUser,
         event_members |-> <<>>, returned |-> 0,
         reply |-> "none", failed_at |-> "none"]

Snapshot == [balances |-> balances, message_rewards |-> message_rewards,
             new_members |-> new_members]

Finish(t, text) == [t EXCEPT !.pc = "done", !.reply = text]

\* mutant: the rake cut off after the second decimal instead of rounded
flip_rake_truncated(amount) == ((amount \div RAKE_DIVISOR) \div Quantum) * Quantum

\* bot.py:309-311: rake, winnings and the amount credited back on a win
flip_rake(amount) == round_bytes(amount \div RAKE_DIVISOR)
flip_winnings(amount) == round_bytes(amount - flip_rake(amount))
flip_total_return(amount) == round_bytes(amount + flip_winnings(amount))

\* The balance after a /flip of amount that was won (bot.py:300, 314)
flip_won(balance, amount) == balance - amount + flip_total_return(amount)

\* init_db creates the tables only if they do not exist (database.py:20-47):
\* a run of the bot starts from whatever earlier runs left in stanley_bot.db.
\* FreshDb is the file of a first run.  PersistedDb is a file left by an
\* earlier run in group chat 1, in which six messages older than the ones of
\* this run were rewarded: four media messages of user 1 (12.00), a reply of
\* user 2 (2.00) and a plain message of user 3 (1.00).  User 1 then won six
\* flips of all they held and a seventh of 260.42, and holds 1003.00.
OldMsgIds == (-5)..0

FreshDb == [balances |-> <<>>, message_rewards |-> {}, new_members |-> {}]

FlipsWon ==
    LET b0 == 4 * REWARD_MEDIA
        b1 == flip_won(b0, b0)
        b2 == flip_won(b1, b1)
        b3 == flip_won(b2, b2)
        b4 == flip_won(b3, b3)
        b5 == flip_won(b4, b4)
        b6 == flip_won(b5, b5)
    IN  flip_won(b6, 260 * Byte + 42 * Quantum)

PersistedDb ==
    [balances |-> (<<1, 1>> :> FlipsWon)
                    @@ (<<2, 1>> :> REWARD_REPLY) @@ (<<3, 1>> :> REWARD_PLAIN),
     message_rewards |-> OldMsgIds \X {1},
     new_members |-> {}]

Init ==
    /\ \E db \in {FreshDb, PersistedDb} :
         /\ balances = db.balances
         /\ message_rewards = db.message_rewards
         /\ new_members = db.new_members
         /\ before = db
    /\ task = [p \in Tasks |-> Idle]
    /\ reward_credits = [k \in (MsgIds \cup ServiceMsgIds) \X Chats |-> 0]
    /\ updates = 0

\* ----------------------------------------------------------- reward_message
\* mutant: the reply tested before the media
reward_reply_first(media, reply) ==
    IF reply THEN REWARD_REPLY
    ELSE IF media THEN REWARD_MEDIA
    ELSE REWARD_PLAIN

\* bot.py:73-79: the tier of a message
reward(media, reply) ==
    IF media THEN REWARD_MEDIA
    ELSE IF reply THEN REWARD_REPLY
    ELSE REWARD_PLAIN

\* mutant: the chat type is not looked at, a message of a private chat is
\* rewarded like any other
reward_or_skip_any_chat(t, media, reply) ==
    IF has_rewarded_message(message_rewards, t.message_id, t.chat_id)
    THEN Finish(t, "none")
    ELSE [t EXCEPT !.pc = "reward_add", !.reward = reward(media, reply)]

\* bot.py:45-79, for the message held in t: has_rewarded_message is read, the
\* chat type is checked and the tier is computed
reward_or_skip(t, media, reply) ==
    IF has_rewarded_message(message_rewards, t.message_id, t.chat_id)
    THEN Finish(t, "none")
    ELSE IF chat_type(t.chat_id) = "private"
    THEN Finish(t, "none")
    ELSE [t EXCEPT !.pc = "reward_add", !.reward = reward(media, reply)]

\* bot.py:35-79: the update arrives
reward_message(p) ==
    /\ task[p].pc = "idle"
    /\ updates < MaxEvents
    /\ updates' = updates + 1
    /\ \E m \in MsgIds, c \in Chats :
         LET t == [Idle EXCEPT !.op = "reward", !.message_id = m, !.chat_id = c,
                               !.user_id = from_user(m)]
         IN  task' = [task EXCEPT ![p] = reward_or_skip(t, has_media(m), is_reply(m))]
    /\ UNCHANGED <<tables, reward_credits>>

\* mutant: the marker written where the credit should be; the author is not
\* credited
reward_mark_only(p) ==
    /\ task[p].pc = "reward_add"
    /\ message_rewards' = mark_message_rewarded(message_rewards,
                                                task[p].message_id, task[p].chat_id)
    /\ task' = [task EXCEPT ![p].pc = "reward_mark"]
    /\ UNCHANGED <<balances, new_members, reward_credits, updates>>

\* bot.py:82
reward_add_bytes(p) ==
    /\ task[p].pc = "reward_add"
    /\ balances' = add_bytes(balances, task[p].user_id, task[p].chat_id, task[p].reward)
    /\ reward_credits' = [reward_credits EXCEPT
                            ![<<task[p].message_id, task[p].chat_id>>] = @ + 1]
    /\ task' = [task EXCEPT ![p].pc = "reward_mark"]
    /\ UNCHANGED <<message_rewards, new_members, updates>>

\* bot.py:83-86
reward_mark(p) ==
    /\ task[p].pc = "reward_mark"
    /\ message_rewards' = mark_message_rewarded(message_rewards,
                                                task[p].message_id, task[p].chat_id)
    /\ task' = [task EXCEPT ![p] = Finish(@, "Rewarded")]
    /\ UNCHANGED <<balances, new_members, reward_credits, updates>>

\* -------------------------------------------------------- handle_new_member
\* bot.py:96-99: bots in new_chat_members are skipped
RECURSIVE skip_bots(_)
skip_bots(members) ==
    IF members = <<>> THEN <<>>
    ELSE IF Head(members) = BotUser THEN skip_bots(Tail(members))
    ELSE members

\* the loop of bot.py:96 moves to the next non-bot member, or the handler ends
next_member(t, text) ==
    LET rest == skip_bots(Tail(t.new_chat_members))
    IN  IF rest = <<>>
        THEN [Finish(t, text) EXCEPT !.new_chat_members = <<>>]
        ELSE [t EXCEPT !.pc = "join_record", !.new_chat_members = rest, !.reply = text]

\* bot.py:88-99: the update arrives
handle_new_member(p) ==
    /\ task[p].pc = "idle"
    /\ updates < MaxEvents
    /\ updates' = updates + 1
    /\ \E c \in Chats, author \in JoinAuthors, members \in JoinLists :
         LET t == [Idle EXCEPT !.op = "join", !.chat_id = c, !.user_id = author,
                               !.event_members = members,
                               !.new_chat_members = skip_bots(members)]
         IN  task' = [task EXCEPT ![p] =
                IF t.new_chat_members = <<>> THEN Finish(t, "none")
                ELSE [t EXCEPT !.pc = "join_record"]]
    /\ UNCHANGED <<tables, reward_credits>>

\* bot.py:101-112
join_record_new_member(p) ==
    /\ task[p].pc = "join_record"
    /\ LET t == task[p]
           user_id == Head(t.new_chat_members)
           inviter_id == IF t.user_id # NoUser /\ t.user_id # user_id
                         THEN t.user_id ELSE NoUser
       IN  /\ new_members' = record_new_member(new_members, user_id, t.chat_id, inviter_id)
           /\ task' = [task EXCEPT ![p] =
                 IF inviter_id # NoUser
                 THEN [t EXCEPT !.pc = "join_add", !.inviter_id = inviter_id]
                 ELSE next_member([t EXCEPT !.inviter_id = NoUser], t.reply)]
    /\ UNCHANGED <<balances, message_rewards, reward_credits, updates>>

\* bot.py:113-118
join_add_bytes(p) ==
    /\ task[p].pc = "join_add"
    /\ balances' = add_bytes(balances, task[p].inviter_id, task[p].chat_id, REWARD_INVITE)
    /\ task' = [task EXCEPT ![p] = next_member(@, "Welcome")]
    /\ UNCHANGED <<message_rewards, new_members, reward_credits, updates>>

\* --------------------------------------------------------------- send_bytes
\* bot.py:152-246: the command arrives with a resolved recipient (NoUser when
\* none could be identified) and a parsed amount; validation, then the
\* handler's own balance check.
send_bytes(p) ==
    /\ task[p].pc = "idle"
    /\ updates < MaxEvents
    /\ updates' = updates + 1
    /\ \E user_id \in Users, c \in Chats, recipient_id \in Users \cup {NoUser},
          raw \in SendAmounts :
         LET amount == round_bytes(raw)
             t == [Idle EXCEPT !.op = "send", !.user_id = user_id, !.chat_id = c]
             u == [t EXCEPT !.recipient_id = recipient_id, !.amount = amount]
         IN  task' = [task EXCEPT ![p] =
                IF chat_type(c) = "private" THEN Finish(t, "GroupsOnly")
                ELSE IF amount <= 0 THEN Finish(u, "AmountNotPositive")
                ELSE IF recipient_id = NoUser THEN Finish(u, "NoRecipient")
                ELSE IF recipient_id = user_id THEN Finish(u, "SelfSend")
                ELSE IF get_balance(balances, user_id, c) < amount
                THEN Finish(u, "InsufficientBalance")
                ELSE [u EXCEPT !.pc = "send_check"]]
    /\ UNCHANGED <<tables, reward_credits>>

\* bot.py:249 -> transfer_bytes (database.py:105-107) -> subtract_bytes
\* (database.py:88-91)
send_subtract_check(p) ==
    /\ task[p].pc = "send_check"
    /\ task' = [task EXCEPT ![p] =
          IF subtract_check(balances, @.user_id, @.chat_id, round_bytes(@.amount))
          THEN [@ EXCEPT !.pc = "send_update"]
          ELSE Finish(@, "TransferFailed")]
    /\ UNCHANGED <<tables, reward_credits, updates>>

\* database.py:93-101
send_subtract_update(p) ==
    /\ task[p].pc = "send_update"
    /\ balances' = subtract_update(balances, task[p].user_id, task[p].chat_id,
                                   round_bytes(task[p].amount))
    /\ task' = [task EXCEPT ![p].pc = "send_add"]
    /\ UNCHANGED <<message_rewards, new_members, reward_credits, updates>>

\* database.py:108-109, bot.py:250-254
send_add_bytes(p) ==
    /\ task[p].pc = "send_add"
    /\ balances' = add_bytes(balances, task[p].recipient_id, task[p].chat_id,
                             round_bytes(task[p].amount))
    /\ task' = [task EXCEPT ![p] = Finish(@, "Sent")]
    /\ UNCHANGED <<message_rewards, new_members, reward_credits, updates>>

\* ------------------------------------------------------------- flip_command
\* bot.py:263-297
flip_command(p) ==
    /\ task[p].pc = "idle"
    /\ updates < MaxEvents
    /\ updates' = updates + 1
    /\ \E user_id \in Users, c \in Chats, raw \in FlipAmounts :
         LET amount == round_bytes(raw)
             t == [Idle EXCEPT !.op = "flip", !.user_id = user_id, !.chat_id = c,
                               !.amount = amount]
         IN  task' = [task EXCEPT ![p] =
                IF amount < FLIP_MIN THEN Finish(t, "MinimumFlip")
                ELSE IF amount > FLIP_MAX THEN Finish(t, "MaximumFlip")
                ELSE IF get_balance(balances, user_id, c) < amount
                THEN Finish(t, "InsufficientBalance")
                ELSE [t EXCEPT !.pc = "flip_check"]]
    /\ UNCHANGED <<tables, reward_credits>>

\* bot.py:300 -> subtract_bytes (database.py:88-91)
flip_subtract_check(p) ==
    /\ task[p].pc = "flip_check"
    /\ task' = [task EXCEPT ![p] =
          IF subtract_check(balances, @.user_id, @.chat_id, @.amount)
          THEN [@ EXCEPT !.pc = "flip_update"]
          ELSE Finish(@, "DeductFailed")]
    /\ UNCHANGED <<tables, reward_credits, updates>>

\* database.py:93-101, then bot.py:305-311 (win) or bot.py:321-327 (loss)
flip_subtract_update(p) ==
    /\ task[p].pc = "flip_update"
    /\ balances' = subtract_update(balances, task[p].user_id, task[p].chat_id,
                                   task[p].amount)
    /\ \E user_wins \in BOOLEAN :
         task' = [task EXCEPT ![p] =
            IF user_wins
            THEN [@ EXCEPT !.pc = "flip_add",
                           !.total_return = flip_total_return(task[p].amount)]
            ELSE Finish(@, "Lost")]
    /\ UNCHANGED <<message_rewards, new_members, reward_credits, updates>>

\* bot.py:314-320
flip_add_bytes(p) ==
    /\ task[p].pc = "flip_add"
    /\ balances' = add_bytes(balances, task[p].user_id, task[p].chat_id,
                             task[p].total_return)
    /\ task' = [task EXCEPT ![p] = Finish(@, "Won")]
    /\ UNCHANGED <<message_rewards, new_members, reward_credits, updates>>

\* ------------------------------------------------------------- rain_command
\* bot.py:334-375
rain_command(p) ==
    /\ task[p].pc = "idle"
    /\ updates < MaxEvents
    /\ updates' = updates + 1
    /\ \E user_id \in Users, c \in Chats, raw \in RainAmounts, count \in RainCounts :
         LET amount_per_user == round_bytes(raw)
             total_amount == round_bytes(amount_per_user * count)
             t == [Idle EXCEPT !.op = "rain", !.user_id = user_id, !.chat_id = c]
             u == [t EXCEPT !.amount = amount_per_user, !.count = count]
         IN  task' = [task EXCEPT ![p] =
                IF chat_type(c) = "private" THEN Finish(t, "GroupsOnly")
                ELSE IF amount_per_user <= 0 THEN Finish(u, "AmountNotPositive")
                ELSE IF count <= 0 THEN Finish(u, "CountNotPositive")
                ELSE IF get_balance(balances, user_id, c) < total_amount
                THEN Finish([u EXCEPT !.total_amount = total_amount],
                            "InsufficientBalance")
                ELSE [u EXCEPT !.pc = "rain_select", !.total_amount = total_amount]]
    /\ UNCHANGED <<tables, reward_credits>>

\* bot.py:378-384
rain_get_random_users(p) ==
    /\ task[p].pc = "rain_select"
    /\ \E recipients \in get_random_users(balances, task[p].chat_id, task[p].count,
                                          task[p].user_id) :
         task' = [task EXCEPT ![p] =
            IF Len(recipients) < @.count
            THEN Finish([@ EXCEPT !.recipients = recipients], "NotEnoughUsers")
            ELSE [@ EXCEPT !.pc = "rain_check", !.recipients = recipients]]
    /\ UNCHANGED <<tables, reward_credits, updates>>

\* bot.py:387 -> subtract_bytes (database.py:88-91)
rain_subtract_check(p) ==
    /\ task[p].pc = "rain_check"
    /\ task' = [task EXCEPT ![p] =
          IF subtract_check(balances, @.user_id, @.chat_id, @.total_amount)
          THEN [@ EXCEPT !.pc = "rain_update"]
          ELSE Finish(@, "DeductFailed")]
    /\ UNCHANGED <<tables, reward_credits, updates>>

\* database.py:93-101
rain_subtract_update(p) ==
    /\ task[p].pc = "rain_update"
    /\ balances' = subtract_update(balances, task[p].user_id, task[p].chat_id,
                                   task[p].total_amount)
    /\ task' = [task EXCEPT ![p].pc = "rain_add"]
    /\ UNCHANGED <<message_rewards, new_members, reward_credits, updates>>

\* bot.py:393-402: one add_bytes per recipient, in the order of the list;
\* rain_results holds the recipients credited so far
rain_add_bytes(p) ==
    /\ task[p].pc = "rain_add"
    /\ LET t == task[p]
           recipient_id == t.recipients[Len(t.rain_results) + 1]
           results == Append(t.rain_results, recipient_id)
       IN  /\ balances' = add_bytes(balances, recipient_id, t.chat_id, t.amount)
           /\ task' = [task EXCEPT ![p] =
                 IF Len(results) = Len(t.recipients)
                 THEN Finish([t EXCEPT !.rain_results = results], "RainComplete")
                 ELSE [t EXCEPT !.rain_results = results]]
    /\ UNCHANGED <<message_rewards, new_members, reward_credits, updates>>

\* ------------------------------------------------------------ process_update
\* The chats in which members join
GroupChats == { c \in Chats : chat_type(c) = "group" }

\* bot.py:414-426: a new_chat_members service message arrives.  It carries no
\* command, so none of the CommandHandlers takes it; the next handler of the
\* list, MessageHandler(~filters.COMMAND, reward_message), accepts every
\* message that is not a command and takes it.  The Application gives an
\* update to the first handler of a group that accepts it, and all handlers
\* are added to the same group: the handler added after it,
\* MessageHandler(filters.StatusUpdate.NEW_CHAT_MEMBERS, handle_new_member),
\* is not called.  The service message has no media and is not a reply.
process_update_new_chat_members(p) ==
    /\ task[p].pc = "idle"
    /\ updates < MaxEvents
    /\ updates' = updates + 1
    /\ \E m \in ServiceMsgIds, c \in GroupChats, author \in JoinAuthors,
          members \in JoinLists :
         LET t == [Idle EXCEPT !.op = "reward", !.message_id = m, !.chat_id = c,
                               !.user_id = author, !.event_members = members]
         IN  task' = [task EXCEPT ![p] = reward_or_skip(t, FALSE, FALSE)]
    /\ UNCHANGED <<tables, reward_credits>>

\* ----------------------------------------------------- calls of the Database
\* database.py:58-68
call_get_balance(p) ==
    /\ task[p].pc = "idle"
    /\ updates < MaxEvents
    /\ updates' = updates + 1
    /\ \E user_id \in CallUsers, c \in CallChats :
         task' = [task EXCEPT ![p] =
            Finish([Idle EXCEPT !.op = "get_balance", !.user_id = user_id,
                                !.chat_id = c,
                                !.returned = get_balance(balances, user_id, c)],
                   "Returned")]
    /\ UNCHANGED <<tables, reward_credits>>

\* database.py:70-84: amount is the argument as passed; the value returned is
\* the get_balance of line 82
call_add_bytes(p) ==
    /\ task[p].pc = "idle"
    /\ updates < MaxEvents
    /\ updates' = updates + 1
    /\ \E user_id \in CallUsers, c \in CallChats, amount \in StoreAmounts :
         /\ balances' = add_bytes(balances, user_id, c, amount)
         /\ task' = [task EXCEPT ![p] =
               Finish([Idle EXCEPT !.op = "add_bytes", !.user_id = user_id,
                                   !.chat_id = c, !.amount = amount,
                                   !.returned = get_balance(balances', user_id, c)],
                      "Returned")]
    /\ UNCHANGED <<message_rewards, new_members, reward_credits>>

\* database.py:103-105: transfer_bytes rounds its amount and calls
\* subtract_bytes; the statements that follow are those of send_subtract_check,
\* send_subtract_update and send_add_bytes, whose "TransferFailed" and "Sent"
\* are the False and True that transfer_bytes returns (bot.py:249-259)
call_transfer_bytes(p) ==
    /\ task[p].pc = "idle"
    /\ updates < MaxEvents
    /\ updates' = updates + 1
    /\ \E from_user_id \in CallUsers, to_user_id \in CallUsers, c \in CallChats,
          amount \in TransferAmounts :
         task' = [task EXCEPT ![p] =
            [Idle EXCEPT !.pc = "send_check", !.op = "transfer_bytes",
                         !.user_id = from_user_id, !.recipient_id = to_user_id,
                         !.chat_id = c, !.amount = round_bytes(amount)]]
    /\ UNCHANGED <<tables, reward_credits>>

\* database.py:134-143
call_record_new_member(p) ==
    /\ task[p].pc = "idle"
    /\ updates < MaxEvents
    /\ updates' = updates + 1
    /\ \E user_id \in CallUsers, c \in CallChats, inviter_id \in CallUsers \cup {NoUser} :
         /\ new_members' = record_new_member(new_members, user_id, c, inviter_id)
         /\ task' = [task EXCEPT ![p] =
               Finish([Idle EXCEPT !.op = "record_new_member", !.user_id = user_id,
                                   !.chat_id = c, !.inviter_id = inviter_id],
                      "Returned")]
    /\ UNCHANGED <<balances, message_rewards, reward_credits>>

\* database.py:145-155
call_get_inviter(p) ==
    /\ task[p].pc = "idle"
    /\ updates < MaxEvents
    /\ updates' = updates + 1
    /\ \E user_id \in CallUsers, c \in CallChats :
         task' = [task EXCEPT ![p] =
            Finish([Idle EXCEPT !.op = "get_inviter", !.user_id = user_id,
                                !.chat_id = c,
                                !.returned = get_inviter(new_members, user_id, c)],
                   "Returned")]
    /\ UNCHANGED <<tables, reward_credits>>

\* ------------------------------------------------------- failures and return
\* A statement of the store raises (sqlite3 error) or the process stops: the
\* handler ends where it is.  send/flip/rain catch the exception and reply
\* with the error text (bot.py:260-261, 331-332, 406-407); nothing is undone.
StoreFailure(p) ==
    /\ task[p].pc \notin {"idle", "done"}
    /\ task' = [task EXCEPT ![p] = [Finish(@, "Error") EXCEPT !.failed_at = task[p].pc]]
    /\ UNCHANGED <<tables, reward_credits, updates>>

\* the handler coroutine returns; the task can take the next update
Return(p) ==
    /\ task[p].pc = "done"
    /\ task' = [task EXCEPT ![p] = Idle]
    /\ UNCHANGED <<tables, reward_credits, updates>>

\* ----------------------------------------------------------- specifications
Next ==
    \/ \E p \in Tasks : reward_message(p) /\ UNCHANGED before
    \/ \E p \in Tasks : reward_add_bytes(p) /\ UNCHANGED before
    \/ \E p \in Tasks : reward_mark(p) /\ UNCHANGED before
    \/ \E p \in Tasks : handle_new_member(p) /\ UNCHANGED before
    \/ \E p \in Tasks : join_record_new_member(p) /\ UNCHANGED before
    \/ \E p \in Tasks : join_add_bytes(p) /\ UNCHANGED before
    \/ \E p \in Tasks : send_bytes(p) /\ UNCHANGED before
    \/ \E p \in Tasks : send_subtract_check(p) /\ UNCHANGED before
    \/ \E p \in Tasks : send_subtract_update(p) /\ UNCHANGED before
    \/ \E p \in Tasks : send_add_bytes(p) /\ UNCHANGED before
    \/ \E p \in Tasks : flip_command(p) /\ UNCHANGED before
    \/ \E p \in Tasks : flip_subtract_check(p) /\ UNCHANGED before
    \/ \E p \in Tasks : flip_subtract_update(p) /\ UNCHANGED before
    \/ \E p \in Tasks : flip_add_bytes(p) /\ UNCHANGED before
    \/ \E p \in Tasks : rain_command(p) /\ UNCHANGED before
    \/ \E p \in Tasks : rain_get_random_users(p) /\ UNCHANGED before
    \/ \E p \in Tasks : rain_subtract_check(p) /\ UNCHANGED before
    \/ \E p \in Tasks : rain_subtract_update(p) /\ UNCHANGED before
    \/ \E p \in Tasks : rain_add_bytes(p) /\ UNCHANGED before
    \/ \E p \in Tasks : StoreFailure(p) /\ UNCHANGED before
    \/ \E p \in Tasks : Return(p) /\ UNCHANGED before

Spec == Init /\ [][Next]_vars

\* One handler at a time: the updates are handled in turn by one task, each
\* handler running to its end before the next update is taken.
Dispatcher == CHOOSE p \in Tasks : \A q \in Tasks : p <= q

NextSeq ==
    \/ reward_message(Dispatcher) /\ UNCHANGED before
    \/ reward_add_bytes(Dispatcher) /\ UNCHANGED before
    \/ reward_mark(Dispatcher) /\ UNCHANGED before
    \/ handle_new_member(Dispatcher) /\ UNCHANGED before
    \/ join_record_new_member(Dispatcher) /\ UNCHANGED before
    \/ join_add_bytes(Dispatcher) /\ UNCHANGED before
    \/ send_bytes(Dispatcher) /\ UNCHANGED before
    \/ send_subtract_check(Dispatcher) /\ UNCHANGED before
    \/ send_subtract_update(Dispatcher) /\ UNCHANGED before
    \/ send_add_bytes(Dispatcher) /\ UNCHANGED before
    \/ flip_command(Dispatcher) /\ UNCHANGED before
    \/ flip_subtract_check(Dispatcher) /\ UNCHANGED before
    \/ flip_subtract_update(Dispatcher) /\ UNCHANGED before
    \/ flip_add_bytes(Dispatcher) /\ UNCHANGED before
    \/ rain_command(Dispatcher) /\ UNCHANGED before
    \/ rain_get_random_users(Dispatcher) /\ UNCHANGED before
    \/ rain_subtract_check(Dispatcher) /\ UNCHANGED before
    \/ rain_subtract_update(Dispatcher) /\ UNCHANGED before
    \/ rain_add_bytes(Dispatcher) /\ UNCHANGED before
    \/ StoreFailure(Dispatcher) /\ UNCHANGED before
    \/ Return(Dispatcher) /\ before' = Snapshot

SpecSeq == Init /\ [][NextSeq]_vars

\* One handler at a time, the updates routed as main() registers the handlers:
\* commands to their CommandHandler, every other message, the new_chat_members
\* service message included, to reward_message.
NextApp ==
    \/ reward_message(Dispatcher) /\ UNCHANGED before
    \/ process_update_new_chat_members(Dispatcher) /\ UNCHANGED before
    \/ reward_add_bytes(Dispatcher) /\ UNCHANGED before
    \/ reward_mark(Dispatcher) /\ UNCHANGED before
    \/ send_bytes(Dispatcher) /\ UNCHANGED before
    \/ send_subtract_check(Dispatcher) /\ UNCHANGED before
    \/ send_subtract_update(Dispatcher) /\ UNCHANGED before
    \/ send_add_bytes(Dispatcher) /\ UNCHANGED before
    \/ flip_command(Dispatcher) /\ UNCHANGED before
    \/ flip_subtract_check(Dispatcher) /\ UNCHANGED before
    \/ flip_subtract_update(Dispatcher) /\ UNCHANGED before
    \/ flip_add_bytes(Dispatcher) /\ UNCHANGED before
    \/ rain_command(Dispatcher) /\ UNCHANGED before
    \/ rain_get_random_users(Dispatcher) /\ UNCHANGED before
    \/ rain_subtract_check(Dispatcher) /\ UNCHANGED before
    \/ rain_subtract_update(Dispatcher) /\ UNCHANGED before
    \/ rain_add_bytes(Dispatcher) /\ UNCHANGED before
    \/ StoreFailure(Dispatcher) /\ UNCHANGED before
    \/ Return(Dispatcher) /\ before' = Snapshot

SpecApp == Init /\ [][NextApp]_vars

\* One handler at a time, every handler reachable, and members join in group
\* chats only: Telegram sends the new_chat_members service message to groups
\* and supergroups, a private chat has no members to add.
NextGroupJoins ==
    \/ reward_message(Dispatcher) /\ UNCHANGED before
    \/ reward_add_bytes(Dispatcher) /\ UNCHANGED before
    \/ reward_mark(Dispatcher) /\ UNCHANGED before
    \/ handle_new_member(Dispatcher) /\ task'[Dispatcher].chat_id \in GroupChats
                                     /\ UNCHANGED before
    \/ join_record_new_member(Dispatcher) /\ UNCHANGED before
    \/ join_add_bytes(Dispatcher) /\ UNCHANGED before
    \/ send_bytes(Dispatcher) /\ UNCHANGED before
    \/ send_subtract_check(Dispatcher) /\ UNCHANGED before
    \/ send_subtract_update(Dispatcher) /\ UNCHANGED before
    \/ send_add_bytes(Dispatcher) /\ UNCHANGED before
    \/ flip_command(Dispatcher) /\ UNCHANGED before
    \/ flip_subtract_check(Dispatcher) /\ UNCHANGED before
    \/ flip_subtract_update(Dispatcher) /\ UNCHANGED before
    \/ flip_add_bytes(Dispatcher) /\ UNCHANGED before
    \/ rain_command(Dispatcher) /\ UNCHANGED before
    \/ rain_get_random_users(Dispatcher) /\ UNCHANGED before
    \/ rain_subtract_check(Dispatcher) /\ UNCHANGED before
    \/ rain_subtract_update(Dispatcher) /\ UNCHANGED before
    \/ rain_add_bytes(Dispatcher) /\ UNCHANGED before
    \/ StoreFailure(Dispatcher) /\ UNCHANGED before
    \/ Return(Dispatcher) /\ before' = Snapshot

SpecGroupJoins == Init /\ [][NextGroupJoins]_vars

\* Message updates only, handled concurrently; `before` stays the store the
\* run started from.
NextReward ==
    \/ \E p \in Tasks : reward_message(p) /\ UNCHANGED before
    \/ \E p \in Tasks : reward_add_bytes(p) /\ UNCHANGED before
    \/ \E p \in Tasks : reward_mark(p) /\ UNCHANGED before
    \/ \E p \in Tasks : StoreFailure(p) /\ UNCHANGED before
    \/ \E p \in Tasks : Return(p) /\ UNCHANGED before

SpecReward == Init /\ [][NextReward]_vars

\* Direct calls of the Database methods, one call at a time
NextDb ==
    \/ call_get_balance(Dispatcher) /\ UNCHANGED before
    \/ call_add_bytes(Dispatcher) /\ UNCHANGED before
    \/ call_transfer_bytes(Dispatcher) /\ UNCHANGED before
    \/ send_subtract_check(Dispatcher) /\ UNCHANGED before
    \/ send_subtract_update(Dispatcher) /\ UNCHANGED before
    \/ send_add_bytes(Dispatcher) /\ UNCHANGED before
    \/ call_record_new_member(Dispatcher) /\ UNCHANGED before
    \/ call_get_inviter(Dispatcher) /\ UNCHANGED before
    \/ StoreFailure(Dispatcher) /\ UNCHANGED before
    \/ Return(Dispatcher) /\ before' = Snapshot

SpecDb == Init /\ [][NextDb]_vars

TypeOK ==
    /\ DOMAIN balances \subseteq Users \X Chats
    /\ message_rewards \subseteq (MsgIds \cup OldMsgIds \cup ServiceMsgIds) \X Chats
    /\ new_members \subseteq Users \X Chats \X (Users \cup {NoUser})
    /\ \A p \in Tasks : task[p].pc \in
          {"idle", "done", "reward_add", "reward_mark", "join_record", "join_add",
           "send_check", "send_update", "send_add",
           "flip_check", "flip_update", "flip_add",
           "rain_select", "rain_check", "rain_update", "rain_add"}

\* ------------------------------------------------------------------ claims
\* What a reader of the store sees for a key: the stored balance, 0 without a row
Held(b, u, c) == IF <<u, c>> \in DOMAIN b THEN b[<<u, c>>] ELSE 0

\* The sum of the balances of a chat
ChatTotal(b, c) == SumOver(b, { k \in DOMAIN b : k[2] = c })

\* Every key but those of the given users in chat c holds what it held before
OthersUntouched(c, touched) ==
    \A u \in Users, d \in Chats :
        (d # c \/ u \notin touched) => Held(balances, u, d) = Held(before.balances, u, d)

TablesAsBefore ==
    /\ \A u \in Users, c \in Chats : Held(balances, u, c) = Held(before.balances, u, c)
    /\ message_rewards = before.message_rewards
    /\ new_members = before.new_members

Ended(p, op) == task[p].pc = "done" /\ task[p].op = op

\* C1 (as claimed): no balance is ever negative, whatever handlers have run
\* and however far each of them has got.
C1_NonNegative ==
    \A u \in Users, c \in Chats : Held(balances, u, c) >= 0

\* The amount a handler debits from its user
DebitOf(t) == IF t.op = "rain" THEN t.total_amount ELSE t.amount

\* subtract_bytes has passed its balance check and is about to write
PassedDebitCheck(p) == task[p].pc \in {"send_update", "flip_update", "rain_update"}

\* C2 (as claimed): of two concurrent debits against one (user, chat) key whose
\* amounts sum to more than the balance, at most one gets past the balance
\* check of subtract_bytes.
C2_AtomicDebit ==
    \A p, q \in Tasks :
        ( /\ p # q
          /\ PassedDebitCheck(p) /\ PassedDebitCheck(q)
          /\ task[p].user_id = task[q].user_id
          /\ task[p].chat_id = task[q].chat_id )
        => DebitOf(task[p]) + DebitOf(task[q])
              <= Held(balances, task[p].user_id, task[p].chat_id)

\* C3: a /send that ends with "Sent" has taken exactly its amount from the
\* sender, given exactly the same amount to the recipient, and left the sum
\* of the balances of the chat and every other balance as they were.
C3_Conservation ==
    \A p \in Tasks :
        (Ended(p, "send") /\ task[p].reply = "Sent") =>
            LET t == task[p]
            IN  /\ t.amount > 0
                /\ t.amount % Quantum = 0
                /\ Held(balances, t.user_id, t.chat_id)
                      = Held(before.balances, t.user_id, t.chat_id) - t.amount
                /\ Held(balances, t.recipient_id, t.chat_id)
                      = Held(before.balances, t.recipient_id, t.chat_id) + t.amount
                /\ ChatTotal(balances, t.chat_id) = ChatTotal(before.balances, t.chat_id)
                /\ OthersUntouched(t.chat_id, {t.user_id, t.recipient_id})

\* a transfer between two users who both held Bytes has completed
C3_Witness ==
    \E p \in Tasks :
        /\ Ended(p, "send") /\ task[p].reply = "Sent"
        /\ Held(before.balances, task[p].recipient_id, task[p].chat_id) > 0
        /\ Held(balances, task[p].user_id, task[p].chat_id) > 0

\* C4 (as claimed): however many times, and however interleaved, a message is
\* handed to reward_message, its author is credited for it at most once.
C4_RewardedOnce ==
    \A k \in MsgIds \X Chats : reward_credits[k] <= 1

\* The handler has applied its debit / all of its credits
DebitApplied(p) ==
    LET t == task[p]
    IN  /\ t.op \in {"send", "rain"}
        /\ \/ t.pc \in {"send_add", "rain_add"}
           \/ t.pc = "done" /\ t.reply \in {"Sent", "RainComplete"}
           \/ t.pc = "done" /\ t.failed_at \in {"send_add", "rain_add"}

CreditsApplied(p) ==
    task[p].pc = "done" /\ task[p].reply \in {"Sent", "RainComplete"}

\* C5 (as claimed): there is no state, for another handler to read or for a
\* failure to leave behind, in which a /send or /rain has debited its sender
\* and not yet credited every recipient.
C5_LegsAtomic ==
    \A p \in Tasks : DebitApplied(p) => CreditsApplied(p)

\* C6: a /rain that ends with "RainComplete" has taken amount_per_user x count
\* from the sender and given amount_per_user to each of count different users,
\* none of them the sender, all of them holding Bytes in the chat beforehand;
\* nothing else has changed.
C6_RainDistribution ==
    \A p \in Tasks :
        (Ended(p, "rain") /\ task[p].reply = "RainComplete") =>
            LET t == task[p]
                r == t.recipients
                chosen == { r[i] : i \in 1..Len(r) }
            IN  /\ Len(r) = t.count
                /\ \A i, j \in 1..Len(r) : i # j => r[i] # r[j]
                /\ t.user_id \notin chosen
                /\ \A u \in chosen : Held(before.balances, u, t.chat_id) > 0
                /\ Held(balances, t.user_id, t.chat_id)
                      = Held(before.balances, t.user_id, t.chat_id) - t.amount * t.count
                /\ \A u \in chosen :
                      Held(balances, u, t.chat_id)
                         = Held(before.balances, u, t.chat_id) + t.amount
                /\ OthersUntouched(t.chat_id, chosen \cup {t.user_id})

\* a rain to two recipients has completed
C6_Witness ==
    \E p \in Tasks :
        /\ Ended(p, "rain") /\ task[p].reply = "RainComplete"
        /\ task[p].count = 2

\* The users a rain of user u in chat c may choose, read off the store as it
\* was when the command arrived
HoldersBefore(u, c) == { v \in Users \ {u} : Held(before.balances, v, c) > 0 }

\* a /rain whose arguments are valid and whose sender can pay
RainAffordable(t) ==
    /\ chat_type(t.chat_id) = "group"
    /\ t.amount > 0 /\ t.count > 0
    /\ Held(before.balances, t.user_id, t.chat_id) >= t.amount * t.count

\* C7: a valid, affordable /rain that finds fewer than count other holders in
\* the chat ends with "NotEnoughUsers" (or with the error of a failed store
\* call) and has changed nothing.
C7_FewRecipients ==
    \A p \in Tasks :
        ( /\ Ended(p, "rain") /\ RainAffordable(task[p])
          /\ Cardinality(HoldersBefore(task[p].user_id, task[p].chat_id)) < task[p].count )
        => /\ task[p].reply \in {"NotEnoughUsers", "Error"}
           /\ TablesAsBefore

\* such a rain was refused although the chat has a holder and a user whose
\* row holds 0.00
C7_Witness ==
    \E p \in Tasks :
        /\ Ended(p, "rain") /\ task[p].reply = "NotEnoughUsers"
        /\ HoldersBefore(task[p].user_id, task[p].chat_id) # {}
        /\ \E v \in Users \ {task[p].user_id} :
              /\ <<v, task[p].chat_id>> \in DOMAIN before.balances
              /\ before.balances[<<v, task[p].chat_id>>] = 0

\* amount x 0.01 rounded half-up to hundredths, computed in hundredths
RakeOf(amount) == (((amount \div Quantum) + 50) \div 100) * Quantum

\* Every amount of [10.00, 1000.00], in hundredths
AcceptedFlipAmounts == { k * Quantum : k \in 1000..100000 }

\* C8: a flip that is played has an amount in [10, 1000]; won, it leaves the
\* user with amount - rake more than before (2 x amount - rake credited after
\* the debit of amount); lost, with exactly amount less; no other balance
\* changes either way.  The amount credited on a win is 2 x amount - rake
\* for every amount of the range (evaluated once, before the first update:
\* it does not depend on the state).
C8_FlipArithmetic ==
    /\ updates = 0 =>
          \A a \in AcceptedFlipAmounts :
              /\ flip_rake(a) = RakeOf(a)
              /\ flip_total_return(a) = 2 * a - RakeOf(a)
    /\ \A p \in Tasks :
           (Ended(p, "flip") /\ task[p].reply \in {"Won", "Lost"}) =>
               LET t == task[p]
                   was == Held(before.balances, t.user_id, t.chat_id)
               IN  /\ t.amount >= 10 * Byte /\ t.amount <= 1000 * Byte
                   /\ t.reply = "Won" =>
                         /\ t.total_return = 2 * t.amount - RakeOf(t.amount)
                         /\ Held(balances, t.user_id, t.chat_id)
                               = was + t.amount - RakeOf(t.amount)
                   /\ t.reply = "Lost" =>
                         Held(balances, t.user_id, t.chat_id) = was - t.amount
                   /\ OthersUntouched(t.chat_id, {t.user_id})

\* a flip of 10.50 was won (rake 0.105 -> 0.11) and the flip of 100.00 of the
\* specification's example too (199.00 credited)
C8_Witness ==
    \E p \in Tasks :
        /\ Ended(p, "flip") /\ task[p].reply = "Won"
        /\ \/ task[p].amount = 10 * Byte + 50 * Quantum
                /\ task[p].total_return = 20 * Byte + 89 * Quantum
           \/ task[p].amount = 100 * Byte /\ task[p].total_return = 199 * Byte

\* the command has passed the validation of its arguments
ArgumentsValid(t) ==
    \/ /\ t.op = "send" /\ chat_type(t.chat_id) = "group"
       /\ t.amount > 0 /\ t.recipient_id \in Users \ {t.user_id}
    \/ /\ t.op = "flip" /\ t.amount >= 10 * Byte /\ t.amount <= 1000 * Byte
    \/ /\ t.op = "rain" /\ chat_type(t.chat_id) = "group"
       /\ t.amount > 0 /\ t.count > 0

\* what the command needs its user to hold
RequiredOf(t) == IF t.op = "rain" THEN t.amount * t.count ELSE t.amount

\* C9: a valid /send, /flip or /rain of a user who holds less than the
\* command requires ends with "InsufficientBalance" and has changed nothing.
C9_InsufficientFunds ==
    \A p \in Tasks :
        ( /\ task[p].pc = "done" /\ ArgumentsValid(task[p])
          /\ Held(before.balances, task[p].user_id, task[p].chat_id)
                < RequiredOf(task[p]) )
        => /\ task[p].reply = "InsufficientBalance"
           /\ TablesAsBefore

\* a /rain was refused for a sender who holds Bytes, but fewer than
\* amount_per_user x count
C9_Witness ==
    \E p \in Tasks :
        /\ task[p].pc = "done" /\ task[p].reply = "InsufficientBalance"
        /\ task[p].op = "rain" /\ task[p].count >= 2
        /\ Held(before.balances, task[p].user_id, task[p].chat_id) >= task[p].amount

\* the arguments are among those the claim names as invalid
ArgumentsInvalid(t) ==
    \/ /\ t.op = "send" /\ chat_type(t.chat_id) = "group"
       /\ (t.amount <= 0 \/ t.recipient_id = t.user_id)
    \/ /\ t.op = "flip" /\ (t.amount < 10 * Byte \/ t.amount > 1000 * Byte)
    \/ /\ t.op = "rain" /\ chat_type(t.chat_id) = "group"
       /\ (t.amount <= 0 \/ t.count <= 0)

ValidationReplies == {"AmountNotPositive", "SelfSend", "MinimumFlip", "MaximumFlip",
                      "CountNotPositive"}

\* C10: a command with invalid arguments ends with the reply of the failed
\* validation and has left balances, reward markers and membership records
\* as they were.
C10_ValidationNoMutation ==
    \A p \in Tasks :
        (task[p].pc = "done" /\ ArgumentsInvalid(task[p]))
        => /\ task[p].reply \in ValidationReplies
           /\ TablesAsBefore

\* a rich user's flip of 9.99 was refused (so was a self-send, a rain of 0)
C10_Witness ==
    \E p \in Tasks :
        /\ Ended(p, "flip") /\ task[p].reply = "MinimumFlip"
        /\ task[p].amount = 9 * Byte + 99 * Quantum
        /\ Held(balances, task[p].user_id, task[p].chat_id) >= 1000 * Byte

\* a call of a Database method has returned (no statement of it has raised)
Called(p, method) == task[p].pc = "done" /\ task[p].op = method /\ task[p].reply # "Error"

\* C11 (as claimed): a call of add_bytes with an amount that is negative after
\* rounding fails with InvalidAmount and leaves the tables as they were, and
\* no call of add_bytes leaves the balance of its key lower than it was, or
\* negative.
C11_AddRejectsNegative ==
    \A p \in Tasks :
        (task[p].pc = "done" /\ task[p].op = "add_bytes") =>
            LET t == task[p]
            IN  /\ round_bytes(t.amount) < 0 =>
                      (t.reply = "InvalidAmount" /\ TablesAsBefore)
                /\ Held(balances, t.user_id, t.chat_id)
                      >= Held(before.balances, t.user_id, t.chat_id)
                /\ Held(balances, t.user_id, t.chat_id) >= 0

\* C12 (as claimed): a call of transfer_bytes with an amount that is not
\* positive after rounding fails with InvalidAmount and leaves the balances of
\* sender and recipient as they were.
C12_TransferRevalidates ==
    \A p \in Tasks :
        (Called(p, "transfer_bytes") /\ task[p].amount <= 0) =>
            LET t == task[p]
            IN  /\ t.reply = "InvalidAmount"
                /\ Held(balances, t.user_id, t.chat_id)
                      = Held(before.balances, t.user_id, t.chat_id)
                /\ Held(balances, t.recipient_id, t.chat_id)
                      = Held(before.balances, t.recipient_id, t.chat_id)

\* The joining users of a new-member event that count as invited by its author
Invited(t) ==
    { i \in 1..Len(t.event_members) :
        t.event_members[i] # BotUser /\ t.event_members[i] # t.user_id }

\* C13 (as claimed): when the handling of a new-member event has ended, every
\* joining user who is not a bot and not the author of the event has a
\* membership record naming the author as inviter, and the author holds 25
\* more in that chat for each of them, whether or not the user had joined
\* before.
C13_InviteCredited ==
    \A p \in Tasks :
        (task[p].pc = "done" /\ task[p].reply # "Error" /\ task[p].event_members # <<>>) =>
            LET t == task[p]
            IN  /\ \A i \in Invited(t) :
                      <<t.event_members[i], t.chat_id, t.user_id>> \in new_members
                /\ Held(balances, t.user_id, t.chat_id)
                      = Held(before.balances, t.user_id, t.chat_id)
                           + 25 * Byte * Cardinality(Invited(t))

\* C14: a message that has been rewarded has earned its author 3.00 if it has
\* media, replying or not, 2.00 if it is a reply without media, 1.00
\* otherwise, in the chat of the message; no other balance has changed.
C14_RewardTier ==
    \A p \in Tasks :
        (Ended(p, "reward") /\ task[p].reply = "Rewarded" /\ task[p].message_id \in MsgIds) =>
            LET t == task[p]
                m == t.message_id
                tier == IF has_media(m) THEN 3 * Byte
                        ELSE IF is_reply(m) THEN 2 * Byte
                        ELSE 1 * Byte
            IN  /\ t.user_id = from_user(m)
                /\ t.reward = tier
                /\ Held(balances, t.user_id, t.chat_id)
                      = Held(before.balances, t.user_id, t.chat_id) + tier
                /\ OthersUntouched(t.chat_id, {t.user_id})

\* a message that has media and is a reply has been rewarded with 3.00
C14_Witness ==
    \E p \in Tasks :
        /\ Ended(p, "reward") /\ task[p].reply = "Rewarded"
        /\ has_media(task[p].message_id) /\ is_reply(task[p].message_id)
        /\ Held(balances, task[p].user_id, task[p].chat_id)
              = Held(before.balances, task[p].user_id, task[p].chat_id) + 3 * Byte

\* The private chats of the model: the chats with an even id
PrivateChats == { c \in Chats : c % 2 = 0 }

\* C15: a message of a private chat that has been handed to reward_message has
\* changed no balance and left no marker; no message of this run is marked,
\* or was ever credited, in a private chat.
C15_PrivateNotRewarded ==
    /\ \A p \in Tasks :
           (Ended(p, "reward") /\ task[p].chat_id \in PrivateChats) =>
               /\ task[p].reply = "none"
               /\ TablesAsBefore
    /\ \A m \in MsgIds, c \in PrivateChats :
           /\ <<m, c>> \notin message_rewards
           /\ reward_credits[<<m, c>>] = 0

\* a media message of a private chat went through reward_message, on a store
\* in which the same message id is unmarked in that chat
C15_Witness ==
    \E p \in Tasks :
        /\ Ended(p, "reward") /\ task[p].chat_id \in PrivateChats
        /\ has_media(task[p].message_id)
        /\ <<task[p].message_id, task[p].chat_id>> \notin before.message_rewards

\* The membership records of a (user, chat)
RecordsOf(nm, u, c) == { r \in nm : r[1] = u /\ r[2] = c }

\* C16: there is never more than one membership record for a (user, chat);
\* when record_new_member has returned, the record of its (user, chat) holds
\* the inviter passed by this call, whatever the record held before, and the
\* records of the other keys are as they were.
C16_OneRecordLastWins ==
    /\ \A u \in Users, c \in Chats : Cardinality(RecordsOf(new_members, u, c)) <= 1
    /\ \A p \in Tasks :
           Called(p, "record_new_member") =>
               LET t == task[p]
               IN  /\ RecordsOf(new_members, t.user_id, t.chat_id)
                         = {<<t.user_id, t.chat_id, t.inviter_id>>}
                   /\ \A u \in Users, c \in Chats :
                         (u # t.user_id \/ c # t.chat_id) =>
                             RecordsOf(new_members, u, c)
                                = RecordsOf(before.new_members, u, c)
    /\ \A p \in Tasks :
           Called(p, "get_inviter") =>
               \/ <<task[p].user_id, task[p].chat_id, task[p].returned>> \in new_members
               \/ /\ task[p].returned = NoUser
                  /\ RecordsOf(new_members, task[p].user_id, task[p].chat_id) = {}

\* a user who had a record with one inviter was recorded again with another
C16_Witness ==
    \E p \in Tasks :
        /\ Called(p, "record_new_member")
        /\ \E r \in before.new_members :
              /\ r[1] = task[p].user_id /\ r[2] = task[p].chat_id
              /\ r[3] # task[p].inviter_id
              /\ r[3] # NoUser /\ task[p].inviter_id # NoUser

\* The amounts between -2.0000 and 2.0000, tick by tick
RoundingInputs == (-2 * Byte)..(2 * Byte)

\* C17: round_bytes gives a multiple of 0.01 that is at most half of 0.01 away
\* from its argument, the one farther from zero when two are equally near, and
\* rounding its result again changes nothing (evaluated once, before the
\* first call: it does not depend on the state); add_bytes of 0.005 on a key
\* without a record leaves 0.01 there, and that is what get_balance returns,
\* as it does for every balance stored.
C17_Rounding ==
    /\ updates = 0 =>
          \A x \in RoundingInputs :
              LET r == round_bytes(x)
              IN  /\ round_bytes(r) = r
                  /\ r % Quantum = 0
                  /\ x >= 0 => (2 * (r - x) <= Quantum /\ 2 * (x - r) < Quantum)
                  /\ x < 0 => (2 * (x - r) <= Quantum /\ 2 * (r - x) < Quantum)
    /\ \A p \in Tasks :
           ( /\ Called(p, "add_bytes") /\ task[p].amount = Quantum \div 2
             /\ <<task[p].user_id, task[p].chat_id>> \notin DOMAIN before.balances )
           => /\ balances[<<task[p].user_id, task[p].chat_id>>] = Quantum
              /\ task[p].returned = Quantum
    /\ \A p \in Tasks :
           Called(p, "get_balance") =>
               task[p].returned = Held(balances, task[p].user_id, task[p].chat_id)

\* get_balance has returned 0.01 for a key that received 0.005 and nothing else
C17_Witness ==
    \E p \in Tasks :
        /\ Called(p, "get_balance") /\ task[p].returned = Quantum
        /\ before.balances = (<<task[p].user_id, task[p].chat_id>> :> Quantum)

\* reward_message has called add_bytes for the message it holds
RewardCredited(p) ==
    /\ task[p].op = "reward"
    /\ \/ task[p].pc = "reward_mark"
       \/ task[p].pc = "done" /\ task[p].reply = "Rewarded"
       \/ task[p].pc = "done" /\ task[p].failed_at = "reward_mark"

\* C18 (as claimed): a reward invocation credits the author only once the
\* marker of its (message, chat) is in the store, so that no message has been
\* credited while its marker is absent.
C18_MarkBeforeCredit ==
    \A p \in Tasks :
        RewardCredited(p) =>
            <<task[p].message_id, task[p].chat_id>> \in message_rewards

\* What the messages of this run have earned user u in chat c, by the calls
\* of add_bytes that reward_message has made
Earned(u, c) ==
    SumOver([k \in MsgIds \X {c} |-> reward_credits[k] * reward(has_media(k[1]), is_reply(k[1]))],
            { k \in MsgIds \X {c} : from_user(k[1]) = u })

\* C19: a reward_message that has completed on a message of a group chat that
\* was not marked has left the marker in the store and the credit on the
\* author's balance; and in every state, whatever handlers are in progress
\* or have been interrupted, a message of this run that is marked has been
\* credited, and every balance is what it was at the start of the run plus
\* the credits made.
C19_MarkImpliesCredit ==
    /\ \A p \in Tasks :
           (Ended(p, "reward") /\ task[p].reply = "Rewarded") =>
               /\ <<task[p].message_id, task[p].chat_id>> \in message_rewards
               /\ reward_credits[<<task[p].message_id, task[p].chat_id>>] >= 1
    /\ \A k \in message_rewards :
           k[1] \in MsgIds => reward_credits[k] >= 1
    /\ \A u \in Users, c \in Chats :
           Held(balances, u, c) = Held(before.balances, u, c) + Earned(u, c)

\* one delivery of a message has completed, credit and marker in place, while
\* the handler of another message was interrupted between its credit and its
\* mark
C19_Witness ==
    \E p, q \in Tasks :
        /\ Ended(p, "reward") /\ task[p].reply = "Rewarded"
        /\ Ended(q, "reward") /\ task[q].failed_at = "reward_mark"
        /\ <<task[q].message_id, task[q].chat_id>> \notin message_rewards
        /\ reward_credits[<<task[q].message_id, task[q].chat_id>>] = 1

\* C20: when a handler invoked in chat c has ended, however it ended, every
\* balance of every other chat is what it was when the handler started; and
\* the recipients a /rain has selected all held Bytes in c itself.
C20_ChatIsolation ==
    \A p \in Tasks :
        (task[p].pc = "done" /\ task[p].op \in {"reward", "join", "send", "flip", "rain"}) =>
            LET t == task[p]
            IN  /\ \A u \in Users, d \in Chats \ {t.chat_id} :
                      /\ Held(balances, u, d) = Held(before.balances, u, d)
                      /\ (<<u, d>> \in DOMAIN balances) = (<<u, d>> \in DOMAIN before.balances)
                /\ t.op = "rain" =>
                      \A i \in 1..Len(t.recipients) :
                          /\ <<t.recipients[i], t.chat_id>> \in DOMAIN before.balances
                          /\ before.balances[<<t.recipients[i], t.chat_id>>] > 0

\* a /rain in a group chat was refused for want of recipients while a user
\* who holds nothing in that chat held Bytes in another group chat, as did
\* the sender
C20_Witness ==
    \E p \in Tasks :
        /\ Ended(p, "rain") /\ task[p].reply = "NotEnoughUsers"
        /\ \E d \in GroupChats \ {task[p].chat_id} :
              /\ Held(before.balances, task[p].user_id, d) > 0
              /\ \E v \in Users \ {task[p].user_id} :
                    /\ Held(before.balances, v, task[p].chat_id) = 0
                    /\ Held(before.balances, v, d) > 0

\* By how much the sum of the balances of chat c differs from what it was
\* when the handler started
SupplyChange(c) == ChatTotal(balances, c) - ChatTotal(before.balances, c)

\* The changes of the sum of its chat that the claim allows a handler that
\* has ended: the tier of a rewarded message, 25.00 for each invite credit
\* made, amount - rake for a flip won, -amount for a flip lost (also allowed
\* here to a flip that was interrupted after its debit), nothing for a /send
\* or a /rain, and nothing for a command that was refused
AllowedSupplyChanges(t) ==
    IF t.op = "reward"
    THEN IF t.reply = "Rewarded" THEN {t.reward}
         ELSE IF t.reply = "Error" THEN {0, t.reward}
         ELSE {0}
    ELSE IF t.op = "join"
    THEN IF t.reply = "Error"
         THEN { 25 * Byte * k : k \in 0..Cardinality(Invited(t)) }
         ELSE { 25 * Byte * Cardinality(Invited(t)) }
    ELSE IF t.op = "flip"
    THEN IF t.reply = "Won" THEN {t.amount - RakeOf(t.amount)}
         ELSE IF t.reply = "Lost" THEN {-t.amount}
         ELSE IF t.reply = "Error" THEN {0, -t.amount}
         ELSE {0}
    ELSE {0}

\* C21 (as claimed): when a handler has ended, the sum of the balances of its
\* chat has changed by one of the amounts allowed to it (1.00, 2.00 or 3.00
\* for a message reward, 25.00 for an invite credit, amount - rake for a flip
\* won, -amount for a flip lost, nothing for a /send, a /rain or a refused
\* command), and the sum of every other chat has not changed.
C21_SupplyAccounting ==
    \A p \in Tasks :
        (task[p].pc = "done" /\ task[p].op \in {"reward", "join", "send", "flip", "rain"}) =>
            /\ task[p].reward \in {0, 1 * Byte, 2 * Byte, 3 * Byte}
            /\ SupplyChange(task[p].chat_id) \in AllowedSupplyChanges(task[p])
            /\ \A d \in Chats \ {task[p].chat_id} : SupplyChange(d) = 0


\* What a handler that ran in a private chat can have answered: a message is
\* passed over, /send and /rain are refused for the chat type, /flip is
\* refused for its amount or for the balance
PrivateChatReplies(op) ==
    IF op = "reward" THEN {"none"}
    ELSE IF op \in {"send", "rain"} THEN {"GroupsOnly"}
    ELSE IF op = "flip" THEN {"MinimumFlip", "MaximumFlip", "InsufficientBalance"}
    ELSE {}

\* C22: with members joining in group chats only, every balance keyed by a
\* private chat is 0 in every state, and every handler that has run in a
\* private chat was passed over or refused: a message is not rewarded, /send
\* and /rain answer that they work in groups only, /flip fails its minimum,
\* its maximum or its balance check.
C22_PrivateChatsEmpty ==
    /\ \A k \in DOMAIN balances : k[2] \in PrivateChats => balances[k] = 0
    /\ \A u \in Users, c \in PrivateChats : Held(balances, u, c) = 0
    /\ \A p \in Tasks :
           (task[p].pc # "idle" /\ task[p].chat_id \in PrivateChats) =>
               /\ task[p].pc = "done"
               /\ task[p].reply \in PrivateChatReplies(task[p].op)

\* a /flip of an amount within the limits was refused for the balance in a
\* private chat, sent by a user who holds at least that amount in a group chat
C22_Witness ==
    \E p \in Tasks :
        /\ Ended(p, "flip") /\ task[p].chat_id \in PrivateChats
        /\ task[p].reply = "InsufficientBalance"
        /\ task[p].amount >= 10 * Byte
        /\ \E g \in Chats \ PrivateChats :
               Held(balances, task[p].user_id, g) >= task[p].amount
=============================================================================
